---- MODULE Spec2Model ----
(***************************************************************************)
(* Model of tabbed-rs (src/bin/tabbed-rs.rs): the Tabbed container state,  *)
(* its event handlers, the main loop, and the part of the X server the     *)
(* handlers talk to (which windows are children of the container, and the  *)
(* notifications the server has generated but the loop has not read yet).  *)
(*                                                                         *)
(* Indices are 0-based as in the Rust code: children[i] of the code is     *)
(* children[i + 1] of the TLA+ sequence.  Option<usize> is an integer with *)
(* None == -1, which is also Rust's derived ordering None < Some(_).       *)
(*                                                                         *)
(* One loop iteration is two steps: the handler of the event (pc "wait" to *)
(* "handled"), then the redraw, sync and loop test (back to "wait", or on  *)
(* to "cleanup").  A panic ends in pc "panicked", an Err returned by main  *)
(* in "failed", a normal return in "exited".  `last` and `issued` describe *)
(* the iteration in progress and are cleared when it ends.                 *)
(*                                                                         *)
(* Notifications about the container's children are queued by the server   *)
(* in the order of the requests that caused them.  Input events (keys,     *)
(* buttons, geometry, properties, client messages, the container's own     *)
(* ReparentNotify) are handled as they arrive: an input event handled      *)
(* while notifications are pending is one that was queued before them.     *)
(* Other clients act while the loop is blocked in wait_for_event.          *)
(*                                                                         *)
(* Spec is the container under all its events.  Four more specifications   *)
(* run the same handlers under other clients: SpecNames (clients rename    *)
(* their windows), SpecStacking (the window manager makes the container as *)
(* low as its tab bar), SpecDetachAll (tabctrl detach --all, with the      *)
(* fairness of the loop, for what eventually happens) and SpecKeys (the    *)
(* key rules come from a configuration file).                              *)
(*                                                                         *)
(* Not modelled: Tabbed.is_focused (written by the FocusIn/FocusOut arms,  *)
(* read nowhere) and the colours and the font of what drawbar paints.      *)
(***************************************************************************)
EXTENDS Integers, Sequences, FiniteSets, TLC

\* ------------------------------------------------------------------ bounds
NumWindows == 3
MaxQueue == 2

\* --------------------------------------------------------------- constants
None == -1
NoName == "<no entry>"
WinId == 0
Root == 100
BarHeight == 20
Half == 65536

Windows == 1..NumWindows

VARIABLES
  children,      \* Tabbed.children: Vec<Window>
  child_names,   \* Tabbed.child_names: HashMap<Window, String>, NoName for no entry
  focused,       \* Tabbed.focused: Option<usize>
  win_width,     \* Tabbed.win_width
  win_height,    \* Tabbed.win_height
  running,       \* Tabbed.running
  need_redraw,   \* Tabbed.need_redraw
  close,         \* cli.close (-c)
  keybinds,      \* Tabbed.config.keybinds
  pc,            \* position of the main loop
  parent,        \* X server: where each client window lives
  queue,         \* X server: notifications generated for the container, not yet read
  net_name,      \* X server: each client window's _NET_WM_NAME property, "" if unset
  wm_name,       \* X server: each client window's WM_NAME property, "" if unset
  stacking,      \* X server: the container's child windows, bottom to top
  issued,        \* requests the handler of this iteration sent to the server, in order
  frame,         \* what the last drawbar painted, <<>> before the first one
  last           \* the event of this iteration, with Tabbed as its handler found it

vars == <<children, child_names, focused, win_width, win_height, running,
          need_redraw, close, keybinds, pc, parent, queue, net_name, wm_name,
          stacking, issued, frame, last>>

\* ----------------------------------------------------------- pure helpers

\* i32::checked_rem in place of checked_rem_euclid: the remainder takes the sign of
\* the dividend, and a negative one cast to usize is out of every range
checked_rem(a, n) ==
  IF n = 0 THEN None
  ELSE IF a >= 0 THEN a % n ELSE IF (-a) % n = 0 THEN 0 ELSE Half - ((-a) % n)

\* i32::checked_rem_euclid: None for a zero divisor, else the non-negative remainder
CheckedRemEuclid(a, n) == IF n = 0 THEN None ELSE a % n

\* Iterator::position(|&w| w == wid): the first index holding wid
Position(ch, wid) ==
  IF \E i \in 1..Len(ch) : ch[i] = wid
  THEN (CHOOSE i \in 1..Len(ch) : ch[i] = wid /\ \A j \in 1..(i - 1) : ch[j] # wid) - 1
  ELSE None

\* Vec::remove(index)
Remove(ch, index) == [i \in 1..(Len(ch) - 1) |-> IF i <= index THEN ch[i] ELSE ch[i + 1]]

\* a swap that copies children[b] over children[a] and loses children[a]
swap_overwrite(ch, a, b) ==
  [i \in 1..Len(ch) |-> IF i = a + 1 THEN ch[b + 1] ELSE ch[i]]

\* Vec::swap(a, b)
Swap(ch, a, b) ==
  [i \in 1..Len(ch) |-> IF i = a + 1 THEN ch[b + 1] ELSE IF i = b + 1 THEN ch[a + 1] ELSE ch[i]]

\* ------------------------------------------------------------- the config

\* impl From<Mod> for u16
ModBit(m) ==
  CASE m = "SHIFT" -> 1 [] m = "LOCK" -> 2 [] m = "CONTROL" -> 4 [] m = "ALT" -> 8 [] m = "ANY" -> 32768

\* Keybind::key_but_mask: the bitwise OR of the modifier bits, 0 for an empty list.
\* The bits are distinct powers of two, so the OR is the sum over the distinct ones.
RECURSIVE SumBits(_)
SumBits(S) == IF S = {} THEN 0 ELSE LET b == CHOOSE x \in S : TRUE IN b + SumBits(S \ {b})
key_but_mask(keybind) ==
  SumBits({ModBit(keybind.modifiers[i]) : i \in 1..Len(keybind.modifiers)})

Bind(mods, key, tag, index) == [modifiers |-> mods, key |-> key, action |-> [tag |-> tag, index |-> index]]

\* DEFAULT_CONFIG.keybinds
DEFAULT_CONFIG ==
  << Bind(<<"SHIFT", "CONTROL">>, 43, "FocusDown", None),
     Bind(<<"SHIFT", "CONTROL">>, 44, "ShiftDown", None),
     Bind(<<"SHIFT", "CONTROL">>, 45, "ShiftUp", None),
     Bind(<<"SHIFT", "CONTROL">>, 46, "FocusUp", None),
     Bind(<<"SHIFT", "CONTROL">>, 22, "DetachFocused", None),
     Bind(<<"SHIFT", "CONTROL">>, 9, "DetachAll", None),
     Bind(<<"CONTROL">>, 10, "Focus", 0),
     Bind(<<"CONTROL">>, 11, "Focus", 1),
     Bind(<<"CONTROL">>, 12, "Focus", 2),
     Bind(<<"CONTROL">>, 13, "Focus", 3),
     Bind(<<"CONTROL">>, 14, "Focus", 4),
     Bind(<<"CONTROL">>, 15, "Focus", 5),
     Bind(<<"CONTROL">>, 16, "Focus", 6),
     Bind(<<"CONTROL">>, 17, "Focus", 7),
     Bind(<<"CONTROL">>, 18, "Focus", 8) >>

NoAction == [tag |-> "none", index |-> None]

\* a lookup that takes the last matching rule of the list
find_last_match(rules, detail, state) ==
  LET hits == {i \in 1..Len(rules) :
                 rules[i].key = detail /\ key_but_mask(rules[i]) = state}
  IN IF hits = {} THEN NoAction
     ELSE rules[CHOOSE i \in hits : \A j \in hits : i >= j].action

\* handle_key_press's lookup: the first rule whose key and modifier mask both match
FindAction(rules, detail, state) ==
  LET hits == {i \in 1..Len(rules) :
                 rules[i].key = detail /\ key_but_mask(rules[i]) = state}
  IN IF hits = {} THEN NoAction
     ELSE rules[CHOOSE i \in hits : \A j \in hits : i <= j].action

\* ------------------------------------------------------- the Tabbed struct

\* the fields of Tabbed a handler reads and writes, with the requests it has sent
\* overflow_checks is the build profile: `win_height as u32 - 20` panics on underflow
\* with overflow checks (a debug build) and wraps without them (a release build)
Self(overflow_checks) ==
  [children |-> children, child_names |-> child_names, focused |-> focused,
   win_width |-> win_width,
   win_height |-> win_height, running |-> running, need_redraw |-> need_redraw,
   issued |-> <<>>, panicked |-> FALSE, overflow_checks |-> overflow_checks]

Req(name, wid, geom) == [req |-> name, window |-> wid, geom |-> geom]

\* a u32 as its two 16-bit halves <<high, low>>: d reduced modulo 2^32
WrapU32(d) == <<(d \div Half) % Half, d % Half>>

\* focus clamping an out-of-range index to the last tab instead of ignoring it
focus_clamped(st, f) ==
  LET g == IF f # None /\ f >= Len(st.children) THEN Len(st.children) - 1 ELSE f
  IN [st EXCEPT !.need_redraw = @ \/ (st.focused # g), !.focused = g]

\* Tabbed::focus
focus(st, f) ==
  IF f # None /\ f >= Len(st.children) THEN st
  ELSE
    LET s1 == [st EXCEPT !.need_redraw = @ \/ (st.focused # f), !.focused = f]
    IN IF f = None THEN s1
       ELSE IF st.win_height < BarHeight /\ st.overflow_checks
       THEN [s1 EXCEPT !.panicked = TRUE]
       ELSE [s1 EXCEPT !.issued = @ \o
               << Req("ConfigureWindow", st.children[f + 1],
                      <<0, BarHeight, st.win_width, WrapU32(st.win_height - BarHeight)>>),
                  Req("SetInputFocus", st.children[f + 1], <<>>) >>]

\* a target that stays on the focus index when there is no child to divide by
target_or_same(st, offset) ==
  IF st.focused = None THEN None
  ELSE IF Len(st.children) = 0 THEN st.focused
  ELSE (st.focused + offset) % Len(st.children)

\* the index both cycle_focus_relative and swap_focused_relative compute
Target(st, offset) ==
  IF st.focused = None THEN None
  ELSE CheckedRemEuclid(st.focused + offset, Len(st.children))

\* Tabbed::cycle_focus_relative
cycle_focus_relative(st, offset) == focus(st, Target(st, offset))

\* a step that stays on the same index (reduced to the range) instead of going back
cycle_focus_in_place(st) == cycle_focus_relative(st, 0)

\* Tabbed::cycle_focus_down
cycle_focus_down(st) == cycle_focus_relative(st, -1)

\* Tabbed::cycle_focus_up
cycle_focus_up(st) == cycle_focus_relative(st, 1)

\* a swap that leaves the focus index where it was
swap_keeping_index(st, offset) ==
  LET a == st.focused
      b == Target(st, offset)
  IN IF a # None /\ b # None
     THEN focus([st EXCEPT !.children = Swap(@, a, b)], a)
     ELSE st

\* Tabbed::swap_focused_relative
swap_focused_relative(st, offset) ==
  LET a == st.focused
      b == Target(st, offset)
  IN IF a # None /\ b # None
     THEN focus([st EXCEPT !.children = Swap(@, a, b)], b)
     ELSE st

\* rs_get_window_name(..).unwrap_or_default(): _NET_WM_NAME, WM_NAME if that is
\* empty, and "" when the window is gone and the query fails
rs_get_window_name(srv, wid) ==
  IF srv.parent[wid] = "gone" THEN ""
  ELSE IF srv.net_name[wid] # "" THEN srv.net_name[wid] ELSE srv.wm_name[wid]

\* Tabbed::check_name
check_name(st, srv, wid) ==
  LET new_name == rs_get_window_name(srv, wid)
      old_name == st.child_names[wid]
  IN [st EXCEPT !.child_names[wid] = new_name,
                !.need_redraw = @ \/ (old_name # new_name),
                !.issued = Append(@, Req("GetProperty", wid, <<>>))]

\* manage putting the new window in front of the others
manage_in_front(st, srv, wid) ==
  LET s1 == [st EXCEPT !.children = <<wid>> \o @]
      s2 == focus(s1, 0)
  IN IF s2.panicked THEN s2
     ELSE LET s3 == [s2 EXCEPT !.issued = Append(@, Req("ChangeWindowAttributes", wid, <<>>))]
          IN [check_name(s3, srv, wid) EXCEPT !.need_redraw = TRUE]

\* Tabbed::manage
manage(st, srv, wid) ==
  LET s1 == [st EXCEPT !.children = Append(@, wid)]
      s2 == focus(s1, Len(s1.children) - 1)
  IN IF s2.panicked THEN s2
     ELSE LET s3 == [s2 EXCEPT !.issued = Append(@, Req("ChangeWindowAttributes", wid, <<>>))]
          IN [check_name(s3, srv, wid) EXCEPT !.need_redraw = TRUE]

\* unmanage without the focus repair
unmanage_no_repair(st, wid) ==
  LET maybe_index == Position(st.children, wid)
  IN IF maybe_index # None
     THEN [st EXCEPT !.children = Remove(@, maybe_index), !.need_redraw = TRUE]
     ELSE st

\* unmanage repairing the focus whatever the position of the removed window
unmanage_always_repairs(st, wid) ==
  LET maybe_index == Position(st.children, wid)
      s1 == IF maybe_index # None
            THEN [st EXCEPT !.children = Remove(@, maybe_index)] ELSE st
      s2 == IF close /\ s1.children = <<>> THEN [s1 EXCEPT !.running = FALSE] ELSE s1
      s3 == cycle_focus_down(s2)
  IN IF s3.panicked THEN s3 ELSE [s3 EXCEPT !.need_redraw = TRUE]

\* Tabbed::unmanage
unmanage(st, wid) ==
  LET maybe_index == Position(st.children, wid)
      s1 == IF maybe_index # None
            THEN [st EXCEPT !.children = Remove(@, maybe_index)] ELSE st
      s2 == IF close /\ s1.children = <<>> THEN [s1 EXCEPT !.running = FALSE] ELSE s1
      s3 == IF s2.focused >= maybe_index THEN cycle_focus_down(s2) ELSE s2
  IN IF s3.panicked THEN s3 ELSE [s3 EXCEPT !.need_redraw = TRUE]

\* ------------------------------------------------------------ the X server

Notify(kind, wid, par) == [kind |-> kind, window |-> wid, parent |-> par]

Server ==
  [parent |-> parent, queue |-> queue, net_name |-> net_name, wm_name |-> wm_name,
   stacking |-> stacking, ok |-> TRUE]

\* a stacking order without wid
Without(stk, wid) == SelectSeq(stk, LAMBDA w : w # wid)

\* a stacking order with wid on top
OnTop(stk, wid) == Append(Without(stk, wid), wid)

\* ConfigureWindow(window, stack_mode Above, x, y, width, height, border_width) as
\* the server executes it: width and height are CARD16 (the low half of the u32
\* sent) and a zero one is BadValue, which leaves the window as it was; a window
\* that is not a child of the container is restacked among other siblings
ConfigureWindow(stk, req) ==
  IF /\ \E i \in 1..Len(stk) : stk[i] = req.window
     /\ req.geom[3] % Half # 0
     /\ req.geom[4][2] # 0
  THEN OnTop(stk, req.window) ELSE stk

\* the container's stacking order after the requests of a handler, in order
RECURSIVE Restack(_, _)
Restack(stk, reqs) ==
  IF reqs = <<>> THEN stk
  ELSE Restack(IF Head(reqs).req = "ConfigureWindow" THEN ConfigureWindow(stk, Head(reqs))
               ELSE stk,
               Tail(reqs))

\* ReparentWindow(wid, root) as the server executes it: BadWindow for a destroyed
\* window; a ReparentNotify reaches the container only when the window leaves it
ReparentToRoot(srv, wid) ==
  IF srv.parent[wid] = "gone" THEN [srv EXCEPT !.ok = FALSE]
  ELSE IF srv.parent[wid] = "container"
  THEN [srv EXCEPT !.parent[wid] = "root",
                   !.stacking = Without(@, wid),
                   !.queue = Append(@, Notify("ReparentNotify", wid, Root))]
  ELSE srv

\* detach_focused also dropping the child from `children` at once
detach_focused_eager(st, srv) ==
  IF st.focused # None
  THEN LET active == st.children[st.focused + 1]
       IN [st |-> unmanage([st EXCEPT !.issued = Append(@, Req("ReparentWindow", active, <<>>))],
                           active),
           srv |-> ReparentToRoot(srv, active)]
  ELSE [st |-> st, srv |-> srv]

\* Tabbed::detach_focused: <<st, srv>> after it; srv.ok = FALSE is the Err it returns
detach_focused(st, srv) ==
  IF st.focused # None
  THEN LET active == st.children[st.focused + 1]
       IN [st |-> [st EXCEPT !.issued = Append(@, Req("ReparentWindow", active, <<>>))],
           srv |-> ReparentToRoot(srv, active)]
  ELSE [st |-> st, srv |-> srv]

\* Tabbed::detach_all: the loop from child i on, stopping at the first Err
RECURSIVE detach_from(_, _, _)
detach_from(i, st, srv) ==
  IF i > Len(st.children) \/ ~srv.ok THEN [st |-> st, srv |-> srv]
  ELSE detach_from(i + 1,
                   [st EXCEPT !.issued = Append(@, Req("ReparentWindow", st.children[i], <<>>))],
                   ReparentToRoot(srv, st.children[i]))

detach_all(st, srv) == detach_from(1, st, srv)

\* Tabbed::do_action: <<st, srv>> after the action; an Err of a detach is unwrapped
do_action(st, srv, action) ==
  LET same(s) == [st |-> s, srv |-> srv]
      unwrap(r) == IF r.srv.ok THEN r ELSE [r EXCEPT !.st.panicked = TRUE]
  IN CASE action.tag = "FocusUp" -> same(cycle_focus_up(st))
       [] action.tag = "FocusDown" -> same(cycle_focus_down(st))
       [] action.tag = "ShiftUp" -> same(swap_focused_relative(st, 1))
       [] action.tag = "ShiftDown" -> same(swap_focused_relative(st, -1))
       [] action.tag = "Focus" -> same(focus(st, action.index))
       [] action.tag = "DetachFocused" -> unwrap(detach_focused(st, srv))
       [] action.tag = "DetachAll" -> unwrap(detach_all(st, srv))
       [] OTHER -> same(st)

\* Tabbed::handle_key_press
handle_key_press(st, srv, detail, state) ==
  LET action == FindAction(keybinds, detail, state)
  IN IF action # NoAction THEN do_action(st, srv, action) ELSE [st |-> st, srv |-> srv]

\* handle_reparent_notify without the lookup: every reparent-in is a new attach
reparent_always_manages(st, srv, event) ==
  IF event.parent = WinId THEN manage(st, srv, event.window)
  ELSE unmanage(st, event.window)

\* Tabbed::handle_reparent_notify
handle_reparent_notify(st, srv, event) ==
  IF event.parent = WinId
  THEN LET index == Position(st.children, event.window)
       IN IF index # None THEN focus(st, index) ELSE manage(st, srv, event.window)
  ELSE unmanage(st, event.window)

\* Tabbed::handle_property_notify (the container selects no events on the root
\* window, so the branch for event.window == root is never taken)
handle_property_notify(st, srv, window, atom) ==
  IF Position(st.children, window) # None /\ atom = "WM_NAME"
  THEN check_name(st, srv, window) ELSE st

\* a DestroyNotify arm that does nothing
destroy_ignored(st, event) == st

\* Tabbed::handle_destroy_notify
handle_destroy_notify(st, event) == unmanage(st, event.window)

\* a configure arm that takes the size of any window for the container's
configure_any_window(st, window, width, height) ==
  IF <<width, height>> = <<st.win_width, st.win_height>> THEN st
  ELSE LET s1 == [st EXCEPT !.win_width = width, !.win_height = height]
           s2 == focus(s1, s1.focused)
       IN IF s2.panicked THEN s2 ELSE [s2 EXCEPT !.need_redraw = TRUE]

\* a configure arm that stores the new size and leaves the dirty flag alone
configure_without_redraw(st, window, width, height) ==
  IF window = WinId
  THEN IF <<width, height>> = <<st.win_width, st.win_height>> THEN st
       ELSE focus([st EXCEPT !.win_width = width, !.win_height = height], st.focused)
  ELSE st

\* Tabbed::handle_configure_notify
handle_configure_notify(st, window, width, height) ==
  IF window = WinId
  THEN IF <<width, height>> = <<st.win_width, st.win_height>> THEN st
       ELSE LET s1 == [st EXCEPT !.win_width = width, !.win_height = height]
                s2 == focus(s1, s1.focused)
            IN IF s2.panicked THEN s2 ELSE [s2 EXCEPT !.need_redraw = TRUE]
  ELSE st

\* Tabbed::handle_map_notify
handle_map_notify(st, window) ==
  IF window = WinId /\ st.focused # None THEN [st EXCEPT !.need_redraw = TRUE] ELSE st

\* handle_button_press's index: floor(event_x / (win_width / len)) as usize, which
\* saturates a negative quotient to 0.  The two f64 divisions give the exact
\* floor(event_x * len / win_width) for every len up to 6 and event_x < win_width
ButtonIndex(st, event_x) ==
  IF event_x < 0 THEN 0 ELSE (event_x * Len(st.children)) \div st.win_width

\* Tabbed::handle_button_press
handle_button_press(st, event_x, event_y) ==
  IF st.children = <<>> \/ event_y > BarHeight THEN st
  ELSE focus(st, ButtonIndex(st, event_x))

\* an f64 that is a quotient of two integers, as <<numerator, denominator>>; a zero
\* denominator under a positive numerator is +infinity, under zero it is NaN.
\* (The rounding of the f64 operations, below 2^-40 of a pixel, is not followed.)
Ratio(a, b) == <<a, b>>
is_infinite(r) == r[2] = 0 /\ r[1] # 0
RatMul(i, r) == <<i * r[1], r[2]>>
RatEq(r, q) == r[1] * q[2] = q[1] * r[2]
RatAdd(r, q) == <<r[1] * q[2] + q[1] * r[2], r[2] * q[2]>>

\* drawbar dividing as integers: every tab as wide as the rounded-down quotient
drawbar_integer_width(st) ==
  LET len == Len(st.children)
  IN IF len = 0
     THEN << [op |-> "band", x |-> Ratio(0, 1), width |-> Ratio(st.win_width, 1)] >>
     ELSE [k \in 1..len |->
             [op |-> "tab", window |-> st.children[k],
              x |-> Ratio((k - 1) * (st.win_width \div len), 1),
              width |-> Ratio(st.win_width \div len, 1),
              bg_bright |-> IF st.focused = k - 1 THEN 0 ELSE 2,
              outline_height |-> IF st.focused = k - 1 THEN 14 ELSE 0,
              name |-> IF st.child_names[st.children[k]] = NoName THEN ""
                       ELSE st.child_names[st.children[k]]]]

\* Tabbed::drawbar: the rectangles it fills, left to right.  bg_bright is in tenths.
drawbar(st) ==
  LET len == Len(st.children)
      tab_width == Ratio(st.win_width, len)
      band == IF is_infinite(tab_width)
              THEN << [op |-> "band", x |-> Ratio(0, 1), width |-> Ratio(st.win_width, 1)] >>
              ELSE <<>>
      tabs == [k \in 1..len |->
                 [op |-> "tab", window |-> st.children[k],
                  x |-> RatMul(k - 1, tab_width),
                  width |-> tab_width,
                  bg_bright |-> IF st.focused = k - 1 THEN 0 ELSE 2,
                  outline_height |-> IF st.focused = k - 1 THEN 14 ELSE 0,
                  name |-> IF st.child_names[st.children[k]] = NoName THEN ""
                           ELSE st.child_names[st.children[k]]]]
  IN band \o tabs

\* WM_PROTOCOLS of a client window lists WM_DELETE_WINDOW
Advertises(wid) == wid % 2 = 1

\* Tabbed::cleanup: the loop from child i on; srv.ok = FALSE is the Err of a query
RECURSIVE cleanup_from(_, _, _)
cleanup_from(i, st, srv) ==
  IF i > Len(st.children) THEN [st |-> [st EXCEPT !.running = FALSE], srv |-> srv]
  ELSE LET wid == st.children[i]
       IN IF srv.parent[wid] = "gone"
          THEN [st |-> [st EXCEPT !.issued = Append(@, Req("GetProperty", wid, <<>>))],
                srv |-> [srv EXCEPT !.ok = FALSE]]
          ELSE cleanup_from(i + 1,
                 [st EXCEPT !.issued = @ \o << Req("GetProperty", wid, <<>>) >> \o
                    (IF Advertises(wid) THEN << Req("SendDelete", wid, <<>>) >> ELSE <<>>)],
                 srv)

cleanup(st, srv) == cleanup_from(1, st, srv)

\* ------------------------------------------------------------ input bounds
Sizes == {<<200, 200>>, <<90, 10>>}
KeyEvents == {<<43, 5>>, <<44, 5>>, <<45, 5>>, <<46, 5>>, <<22, 5>>, <<9, 5>>,
              <<10, 4>>, <<11, 4>>, <<13, 4>>, <<10, 5>>, <<99, 4>>}
PressX == {0, 100, 199}
PressY == {10, 20, 21}
ClientMessages == {<<32, WinId, "WM_DELETE_WINDOW">>, <<8, WinId, "WM_DELETE_WINDOW">>,
                   <<32, 1, "WM_DELETE_WINDOW">>, <<32, WinId, "other">>}
PropWindows == {1, 2}
InitWidth == 200
InitHeight == 200
Frame == 101

\* ------------------------------------------------------------------- Init

\* Tabbed as the handler of an event found it
Pre ==
  [children |-> children, child_names |-> child_names, focused |-> focused,
   win_width |-> win_width, win_height |-> win_height, running |-> running,
   need_redraw |-> need_redraw]

\* an event of the loop: its kind, its window, what it asks for, and Tabbed before it
Event(kind, wid, action) == [kind |-> kind, window |-> wid, action |-> action, pre |-> Pre]

\* no event: the loop is blocked in wait_for_event, or the process has ended
NoEvent ==
  [kind |-> "none", window |-> None, action |-> NoAction,
   pre |-> [children |-> <<>>, child_names |-> [w \in Windows |-> NoName],
            focused |-> None, win_width |-> InitWidth, win_height |-> InitHeight,
            running |-> TRUE, need_redraw |-> FALSE]]

\* Tabbed::new, with the command line's -c and the default configuration
Init ==
  /\ children = <<>>
  /\ child_names = [w \in Windows |-> NoName]
  /\ focused = None
  /\ win_width = InitWidth
  /\ win_height = InitHeight
  /\ running = TRUE
  /\ need_redraw = TRUE
  /\ close \in BOOLEAN
  /\ keybinds = DEFAULT_CONFIG
  /\ pc = "wait"
  /\ parent = [w \in Windows |-> "root"]
  /\ queue = <<>>
  /\ net_name = [w \in Windows |-> IF w % 2 = 0 THEN "extended" ELSE ""]
  /\ wm_name = [w \in Windows |-> "legacy"]
  /\ stacking = <<>>
  /\ issued = <<>>
  /\ frame = <<>>
  /\ last = NoEvent

\* the handler's writes to Tabbed and the server's state after its requests
Commit(st, srv, ev) ==
  /\ children' = st.children
  /\ child_names' = st.child_names
  /\ focused' = st.focused
  /\ win_width' = st.win_width
  /\ win_height' = st.win_height
  /\ running' = st.running
  /\ need_redraw' = st.need_redraw
  /\ issued' = st.issued
  /\ pc' = IF st.panicked THEN "panicked" ELSE "handled"
  /\ parent' = srv.parent
  /\ queue' = srv.queue
  /\ stacking' = Restack(srv.stacking, st.issued)
  /\ last' = ev
  /\ UNCHANGED <<close, keybinds, net_name, wm_name, frame>>

\* ------------------------------------------------- what other clients do

\* a client reparents wid into the container (also when it is there already)
ExtReparentIn(wid) ==
  /\ pc = "wait" /\ Len(queue) < MaxQueue
  /\ parent[wid] # "gone"
  /\ parent' = [parent EXCEPT ![wid] = "container"]
  /\ stacking' = OnTop(stacking, wid)
  /\ queue' = Append(queue, Notify("ReparentNotify", wid, WinId))
  /\ UNCHANGED <<children, child_names, focused, win_width, win_height, running,
                 need_redraw, close, keybinds, pc, net_name, wm_name, issued, frame, last>>

\* a client (tabctrl detach, a window manager) reparents a child to the root
ExtReparentOut(wid) ==
  /\ pc = "wait" /\ Len(queue) < MaxQueue
  /\ parent[wid] = "container"
  /\ parent' = [parent EXCEPT ![wid] = "root"]
  /\ stacking' = Without(stacking, wid)
  /\ queue' = Append(queue, Notify("ReparentNotify", wid, Root))
  /\ UNCHANGED <<children, child_names, focused, win_width, win_height, running,
                 need_redraw, close, keybinds, pc, net_name, wm_name, issued, frame, last>>

\* a child of the container is destroyed
ExtDestroy(wid) ==
  /\ pc = "wait" /\ Len(queue) < MaxQueue
  /\ parent[wid] = "container"
  /\ parent' = [parent EXCEPT ![wid] = "gone"]
  /\ stacking' = Without(stacking, wid)
  /\ queue' = Append(queue, Notify("DestroyNotify", wid, None))
  /\ UNCHANGED <<children, child_names, focused, win_width, win_height, running,
                 need_redraw, close, keybinds, pc, net_name, wm_name, issued, frame, last>>

\* ------------------------------------------------------ the main loop

\* the build profiles a handler's arithmetic can run under
Profiles == BOOLEAN

\* main's ReparentNotify arm, for the next notification of the server's queue
HandleReparentNotify ==
  /\ pc = "wait" /\ queue # <<>> /\ Head(queue).kind = "ReparentNotify"
  /\ \E oc \in Profiles :
       Commit(handle_reparent_notify(Self(oc), Server, Head(queue)),
              [Server EXCEPT !.queue = Tail(queue)],
              Event("ReparentNotify", Head(queue).window,
                    [tag |-> IF Head(queue).parent = WinId THEN "in" ELSE "out",
                     index |-> Position(children, Head(queue).window)]))

\* main's ReparentNotify arm, for the container's own ReparentNotify: STRUCTURE_NOTIFY
\* delivers it when a reparenting window manager puts the container into a frame
HandleOwnReparentNotify ==
  /\ pc = "wait"
  /\ \E oc \in Profiles :
       Commit(handle_reparent_notify(Self(oc), Server, Notify("ReparentNotify", WinId, Frame)),
              Server, Event("ReparentNotify", WinId,
                            [tag |-> "out", index |-> Position(children, WinId)]))

\* main's DestroyNotify arm
HandleDestroyNotify ==
  /\ pc = "wait" /\ queue # <<>> /\ Head(queue).kind = "DestroyNotify"
  /\ \E oc \in Profiles :
       Commit(handle_destroy_notify(Self(oc), Head(queue)),
              [Server EXCEPT !.queue = Tail(queue)],
              Event("DestroyNotify", Head(queue).window,
                    [tag |-> "destroy", index |-> Position(children, Head(queue).window)]))

\* main's KeyPress arm.  A detach is taken when the notifications it causes fit in
\* MaxQueue, or when nothing is pending (a detach-all of a full container)
HandleKeyPress(detail, state) ==
  /\ pc = "wait"
  /\ \E oc \in Profiles :
       LET r == handle_key_press(Self(oc), Server, detail, state)
       IN /\ Len(r.srv.queue) <= MaxQueue \/ queue = <<>>
          /\ Commit(r.st, r.srv,
                 Event("KeyPress", None,
                       [tag |-> FindAction(keybinds, detail, state).tag,
                        index |-> FindAction(keybinds, detail, state).index,
                        detail |-> detail, state |-> state]))

\* main's ButtonPress arm
HandleButtonPress(event_x, event_y) ==
  /\ pc = "wait"
  /\ \E oc \in Profiles :
       Commit(handle_button_press(Self(oc), event_x, event_y), Server,
              Event("ButtonPress", None,
                    [tag |-> IF event_y > BarHeight THEN "below" ELSE "bar",
                     index |-> ButtonIndex(Self(oc), event_x),
                     event_x |-> event_x, event_y |-> event_y]))

\* main's ConfigureNotify arm
HandleConfigureNotify(window, size) ==
  /\ pc = "wait"
  /\ \E oc \in Profiles :
       Commit(handle_configure_notify(Self(oc), window, size[1], size[2]), Server,
              Event("ConfigureNotify", window,
                    [tag |-> "none", index |-> None, width |-> size[1], height |-> size[2]]))

\* main's MapNotify arm
HandleMapNotify(window) ==
  /\ pc = "wait"
  /\ Commit(handle_map_notify(Self(FALSE), window), Server,
            Event("MapNotify", window, NoAction))

\* main's PropertyNotify arm
HandlePropertyNotify(window, atom) ==
  /\ pc = "wait"
  /\ Commit(handle_property_notify(Self(FALSE), Server, window, atom), Server,
            Event("PropertyNotify", window, [tag |-> atom, index |-> None]))

\* main's ClientMessage arm
HandleClientMessage(format, window, data0) ==
  /\ pc = "wait"
  /\ Commit(IF format = 32 /\ window = WinId /\ data0 = "WM_DELETE_WINDOW"
            THEN [Self(FALSE) EXCEPT !.running = FALSE] ELSE Self(FALSE),
            Server, Event("ClientMessage", window, [tag |-> data0, index |-> format]))

\* a loop that goes on to the next wait_for_event without testing `running`
redraw_and_wait ==
  /\ pc = "handled" /\ need_redraw
  /\ need_redraw' = FALSE
  /\ pc' = "wait"
  /\ frame' = drawbar(Self(FALSE))
  /\ issued' = <<>>
  /\ last' = NoEvent
  /\ UNCHANGED <<children, child_names, focused, win_width, win_height, running,
                 close, keybinds, parent, queue, net_name, wm_name, stacking>>

\* the end of a loop iteration: drawbar if a redraw is owed, sync, test `running`
Redraw ==
  /\ pc = "handled" /\ need_redraw
  /\ need_redraw' = FALSE
  /\ pc' = IF running THEN "wait" ELSE "cleanup"
  /\ frame' = drawbar(Self(FALSE))
  /\ issued' = <<>>
  /\ last' = NoEvent
  /\ UNCHANGED <<children, child_names, focused, win_width, win_height, running,
                 close, keybinds, parent, queue, net_name, wm_name, stacking>>

\* drawbar returns a cairo error, which main's `?` returns (what it had painted
\* before the error is not followed)
RedrawFails ==
  /\ pc = "handled" /\ need_redraw
  /\ pc' = "failed"
  /\ issued' = <<>>
  /\ last' = NoEvent
  /\ UNCHANGED <<children, child_names, focused, win_width, win_height, running,
                 need_redraw, close, keybinds, parent, queue, net_name, wm_name, stacking,
                 frame>>

NoRedraw ==
  /\ pc = "handled" /\ ~need_redraw
  /\ pc' = IF running THEN "wait" ELSE "cleanup"
  /\ issued' = <<>>
  /\ last' = NoEvent
  /\ UNCHANGED <<children, child_names, focused, win_width, win_height, running,
                 need_redraw, close, keybinds, parent, queue, net_name, wm_name, stacking,
                 frame>>

\* main after the loop: tabbed.cleanup()?
Cleanup ==
  /\ pc = "cleanup"
  /\ LET r == cleanup(Self(FALSE), Server)
     IN /\ running' = r.st.running
        /\ issued' = r.st.issued
        /\ pc' = IF r.srv.ok THEN "exited" ELSE "failed"
  /\ last' = Event("cleanup", None, NoAction)
  /\ UNCHANGED <<children, child_names, focused, win_width, win_height, need_redraw,
                 close, keybinds, parent, queue, net_name, wm_name, stacking, frame>>

Next ==
  \/ \E wid \in Windows : ExtReparentIn(wid)
  \/ \E wid \in Windows : ExtReparentOut(wid)
  \/ \E wid \in Windows : ExtDestroy(wid)
  \/ HandleReparentNotify
  \/ HandleOwnReparentNotify
  \/ HandleDestroyNotify
  \/ \E key \in KeyEvents : HandleKeyPress(key[1], key[2])
  \/ \E event_x \in PressX, event_y \in PressY : HandleButtonPress(event_x, event_y)
  \/ \E window \in {WinId, 1}, size \in Sizes : HandleConfigureNotify(window, size)
  \/ \E window \in {WinId, 1} : HandleMapNotify(window)
  \/ \E window \in PropWindows, atom \in {"WM_NAME", "_NET_WM_NAME"} :
       HandlePropertyNotify(window, atom)
  \/ \E msg \in ClientMessages : HandleClientMessage(msg[1], msg[2], msg[3])
  \/ Redraw
  \/ RedrawFails
  \/ NoRedraw
  \/ Cleanup

Spec == Init /\ [][Next]_vars

\* ------------------------------------------- specification with renames
\* SpecNames follows the name cache: clients attach windows and change their
\* name properties, and the server reports each change of a property of a window
\* on which manage has selected PROPERTY_CHANGE.

\* the values a client gives a name property
NameValues == {"", "renamed"}

\* a PropertyNotify event as the server queues it
PropertyNotify(wid, atom) == [kind |-> "PropertyNotify", window |-> wid, atom |-> atom]

\* manage has selected PROPERTY_CHANGE on wid: it did so when it cached its name
Selected(wid) == child_names[wid] # NoName

\* a client changes the _NET_WM_NAME or the WM_NAME property of its window
ExtSetName(wid, atom, value) ==
  /\ pc = "wait" /\ Len(queue) < MaxQueue
  /\ parent[wid] # "gone"
  /\ IF atom = "_NET_WM_NAME"
     THEN /\ value # net_name[wid]
          /\ net_name' = [net_name EXCEPT ![wid] = value]
          /\ UNCHANGED wm_name
     ELSE /\ value # wm_name[wid]
          /\ wm_name' = [wm_name EXCEPT ![wid] = value]
          /\ UNCHANGED net_name
  /\ queue' = IF Selected(wid) THEN Append(queue, PropertyNotify(wid, atom)) ELSE queue
  /\ UNCHANGED <<children, child_names, focused, win_width, win_height, running,
                 need_redraw, close, keybinds, pc, parent, stacking, issued, frame, last>>

\* main's PropertyNotify arm, for the next notification of the server's queue
HandleQueuedPropertyNotify ==
  /\ pc = "wait" /\ queue # <<>> /\ Head(queue).kind = "PropertyNotify"
  /\ Commit(handle_property_notify(Self(FALSE), Server, Head(queue).window, Head(queue).atom),
            [Server EXCEPT !.queue = Tail(queue)],
            Event("PropertyNotify", Head(queue).window,
                  [tag |-> Head(queue).atom, index |-> None]))

NamesNext ==
  \/ \E wid \in PropWindows : ExtReparentIn(wid)
  \/ \E wid \in PropWindows, atom \in {"WM_NAME", "_NET_WM_NAME"}, value \in NameValues :
       ExtSetName(wid, atom, value)
  \/ HandleReparentNotify
  \/ HandleQueuedPropertyNotify
  \/ Redraw
  \/ NoRedraw

SpecNames == Init /\ [][NamesNext]_vars

\* ----------------------------------- specification with a bar-high container
\* SpecStacking follows the stacking order through attaches, detaches and focus
\* changes while the window manager resizes the container, also to the height of
\* the tab bar alone.

StackSizes == {<<200, 200>>, <<200, BarHeight>>}
StackKeys == {<<43, 5>>, <<46, 5>>, <<10, 4>>, <<22, 5>>}

StackingNext ==
  \/ \E wid \in Windows : ExtReparentIn(wid)
  \/ \E wid \in Windows : ExtReparentOut(wid)
  \/ HandleReparentNotify
  \/ \E key \in StackKeys : HandleKeyPress(key[1], key[2])
  \/ \E size \in StackSizes : HandleConfigureNotify(WinId, size)
  \/ Redraw
  \/ NoRedraw

SpecStacking == Init /\ [][StackingNext]_vars

\* --------------------------------------- specification with tabctrl detach
\* SpecDetachAll follows a container whose tabs come and go by `tabctrl`: windows
\* are reparented in, `tabctrl detach --all` reparents all of them out, the window
\* manager resizes the container, and the loop handles what arrives.

\* tabctrl's reparent_all(conn, wid, root): the children of the tree query, bottom
\* to top, each reparented to the root, stopping at the first Err
RECURSIVE reparent_all(_, _)
reparent_all(srv, q_children) ==
  IF q_children = <<>> \/ ~srv.ok THEN srv
  ELSE reparent_all(ReparentToRoot(srv, Head(q_children)), Tail(q_children))

\* `tabctrl detach --all <wid>` on a container with children
ExtDetachAll ==
  /\ pc = "wait" /\ stacking # <<>>
  /\ Len(queue) + Len(stacking) <= MaxQueue \/ queue = <<>>
  /\ LET srv == reparent_all(Server, stacking)
     IN /\ parent' = srv.parent
        /\ queue' = srv.queue
        /\ stacking' = srv.stacking
  /\ UNCHANGED <<children, child_names, focused, win_width, win_height, running,
                 need_redraw, close, keybinds, pc, net_name, wm_name, issued, frame, last>>

DetachAllNext ==
  \/ \E wid \in Windows : ExtReparentIn(wid)
  \/ ExtDetachAll
  \/ HandleReparentNotify
  \/ \E size \in Sizes : HandleConfigureNotify(WinId, size)
  \/ Redraw
  \/ RedrawFails
  \/ NoRedraw
  \/ Cleanup

\* The server delivers events in order, so a pending notification is read after
\* finitely many other events (strong fairness: reading it is not enabled while
\* another event is being handled); each iteration of the loop, and main after
\* the loop, runs to its end.  Nothing obliges a draw to fail.
SpecDetachAll ==
  /\ Init /\ [][DetachAllNext]_vars
  /\ SF_vars(HandleReparentNotify) /\ WF_vars(Redraw) /\ WF_vars(NoRedraw)
  /\ WF_vars(Cleanup)

\* ------------------------------------- specification with a configuration file
\* SpecKeys runs the key handler under the default rules and under rules read
\* from a configuration file, whose keybinds list replaces the default one.

\* the keybinds of a configuration file: two rules for the same key and mask, a
\* toggle-auto-attach rule in front of another rule, modifier lists that repeat
\* a flag or give the flags in another order, one key under two masks
USER_CONFIG ==
  << Bind(<<>>, 50, "FocusUp", None),
     Bind(<<>>, 50, "FocusDown", None),
     Bind(<<"CONTROL", "CONTROL">>, 51, "ToggleAutoAttach", None),
     Bind(<<"CONTROL">>, 51, "FocusDown", None),
     Bind(<<"CONTROL", "SHIFT">>, 52, "Focus", 0),
     Bind(<<"SHIFT", "CONTROL">>, 52, "Focus", 1),
     Bind(<<"CONTROL">>, 53, "ShiftUp", None),
     Bind(<<"SHIFT">>, 53, "DetachFocused", None) >>

\* read_config: the default rules, or those of the file
Configs == {DEFAULT_CONFIG, USER_CONFIG}

\* the key presses that arrive: <<detail, state>>
UserKeys == {<<50, 0>>, <<50, 1>>, <<51, 4>>, <<52, 5>>, <<52, 4>>, <<53, 4>>, <<53, 1>>,
             <<53, 5>>, <<43, 5>>, <<46, 5>>, <<10, 4>>}

\* Tabbed::new with the configuration main has read
InitKeys ==
  /\ children = <<>>
  /\ child_names = [w \in Windows |-> NoName]
  /\ focused = None
  /\ win_width = InitWidth
  /\ win_height = InitHeight
  /\ running = TRUE
  /\ need_redraw = TRUE
  /\ close \in BOOLEAN
  /\ keybinds \in Configs
  /\ pc = "wait"
  /\ parent = [w \in Windows |-> "root"]
  /\ queue = <<>>
  /\ net_name = [w \in Windows |-> IF w % 2 = 0 THEN "extended" ELSE ""]
  /\ wm_name = [w \in Windows |-> "legacy"]
  /\ stacking = <<>>
  /\ issued = <<>>
  /\ frame = <<>>
  /\ last = NoEvent

KeysNext ==
  \/ \E wid \in Windows : ExtReparentIn(wid)
  \/ \E wid \in Windows : ExtDestroy(wid)
  \/ HandleReparentNotify
  \/ HandleDestroyNotify
  \/ \E key \in UserKeys : HandleKeyPress(key[1], key[2])
  \/ Redraw
  \/ NoRedraw

SpecKeys == InitKeys /\ [][KeysNext]_vars

\* ============================================================== the claims

Handled == pc \in {"handled", "panicked"} /\ last.kind # "none"
Detached == Handled /\ last.kind \in {"ReparentNotify", "DestroyNotify"}
                    /\ last.action.tag \in {"out", "destroy"}
NoDup(ch) == \A i, j \in 1..Len(ch) : ch[i] = ch[j] => i = j
Range(ch) == {ch[i] : i \in 1..Len(ch)}

\* C1: after every event, focused is None or an index strictly below the number
\* of children
C1_FocusedInRange == focused = None \/ (focused >= 0 /\ focused < Len(children))

\* a destroy-notify removed the focused last tab of three and focus was repaired
C1_Witness ==
  /\ Detached /\ pc = "handled"
  /\ Len(last.pre.children) = 3 /\ last.pre.focused = 2 /\ last.action.index = 2
  /\ focused # None

\* C2 (as claimed): a reparent-out or destroy notification for a window that is
\* not in children leaves children and focused as they were
C2_UntrackedUnmanageIsNoop ==
  (Detached /\ last.action.index = None)
    => (children = last.pre.children /\ focused = last.pre.focused)

\* C3 (as claimed): running is cleared only by a close message addressed to the
\* container or, with close-on-empty, by an event that removes the last tracked
\* child; without close-on-empty no reparent/destroy notification clears it; and
\* it is never set again
C3_RunningClearedOnlyByCloseOrLastChild ==
  /\ (Handled /\ last.pre.running /\ ~running) =>
       \/ /\ last.kind = "ClientMessage" /\ last.window = WinId
          /\ last.action.tag = "WM_DELETE_WINDOW"
       \/ close /\ last.pre.children # <<>> /\ children = <<>>
  /\ (Handled /\ ~close /\ last.kind \in {"ReparentNotify", "DestroyNotify"})
       => running = last.pre.running
  /\ (last.kind # "none" /\ ~last.pre.running) => ~running
  /\ pc \in {"cleanup", "exited"} => ~running

\* the focused tab, one of several, was detached or destroyed
FocusedDetached ==
  /\ Detached
  /\ last.action.index # None /\ last.action.index = last.pre.focused
  /\ Len(last.pre.children) >= 2

\* C4 (as claimed): detaching the focused tab while others remain leaves focus on
\* a valid tab, and detaching the focused last-indexed tab wraps focus to index 0
C4_DetachLastWrapsToZero ==
  FocusedDetached =>
    /\ focused >= 0 /\ focused < Len(children)
    /\ last.pre.focused = Len(last.pre.children) - 1 => focused = 0

\* C4 (amended): detaching the focused tab at index f while others remain moves
\* focus to index (f - 1) mod the new length: the tab that stood before it, and
\* for f = 0 the wrap to the last remaining tab
C4_DetachFocusesPredecessor ==
  FocusedDetached =>
    /\ children = Remove(last.pre.children, last.pre.focused)
    /\ focused = (last.pre.focused - 1) % Len(children)
    /\ last.pre.focused > 0 =>
         children[focused + 1] = last.pre.children[last.pre.focused]
    /\ last.pre.focused = 0 => focused = Len(children) - 1

\* the focused first tab of three was detached and focus wrapped to the last one
C4_Witness ==
  /\ FocusedDetached /\ pc = "handled"
  /\ Len(last.pre.children) = 3 /\ last.pre.focused = 0 /\ focused = 1

\* C5: children never holds a window twice, and a reparent-notify into the
\* container for a window already tracked focuses it and leaves children alone
C5_NoDuplicateChildren ==
  /\ NoDup(children)
  /\ (Handled /\ last.kind = "ReparentNotify" /\ last.action.tag = "in"
        /\ last.action.index # None)
       => (children = last.pre.children /\ focused = last.action.index)

\* a tracked, unfocused window was reparented into the container again
C5_Witness ==
  /\ Handled /\ pc = "handled"
  /\ last.kind = "ReparentNotify" /\ last.action.tag = "in"
  /\ last.action.index # None /\ last.action.index # last.pre.focused
  /\ Len(children) >= 2

\* C6: when no notification is pending, children holds exactly the windows that
\* are children of the container window
C6_ChildrenMatchServer ==
  queue = <<>> => Range(children) = {w \in Windows : parent[w] = "container"}

\* the last pending notification, of a window that left, was processed while
\* another window that had been attached and destroyed is no longer tracked
C6_Witness ==
  /\ Detached /\ pc = "handled" /\ queue = <<>>
  /\ last.action.tag = "out" /\ last.action.index # None
  /\ Len(children) = 1
  /\ \E w \in Windows : parent[w] = "gone" /\ child_names[w] # NoName

DetachKey == Handled /\ last.kind = "KeyPress"
                     /\ last.action.tag \in {"DetachFocused", "DetachAll"}

\* C7: detach-focused and detach-all only send reparent requests and leave
\* children, focused and the names as they were; a window leaves children only
\* in the handler of its own reparent-out or destroy notification, which removes it
C7_DetachLeavesTabsAlone ==
  /\ DetachKey =>
       /\ children = last.pre.children
       /\ focused = last.pre.focused
       /\ child_names = last.pre.child_names
       /\ \A i \in 1..Len(issued) :
            issued[i].req = "ReparentWindow" /\ issued[i].window \in Range(children)
  /\ Handled =>
       \A w \in Range(last.pre.children) \ Range(children) :
         Detached /\ last.window = w
  /\ Detached => last.window \notin Range(children)

\* detach-all was pressed with two tabs: both are still tracked, their
\* notifications pending
C7_Witness ==
  /\ DetachKey /\ pc = "handled" /\ last.action.tag = "DetachAll"
  /\ Len(children) = 2 /\ Len(queue) = 2
  /\ \A w \in Range(children) : parent[w] = "root"

\* a focus-index key or a press in the tab bar asked for an index past the end
FocusPastEnd ==
  /\ Handled
  /\ \/ last.kind = "KeyPress" /\ last.action.tag = "Focus"
     \/ last.kind = "ButtonPress"
  /\ last.action.index >= Len(last.pre.children)

\* C8: a focus request for an index >= the number of children changes neither
\* children, focused nor the dirty flag, sends no request and does not panic
C8_FocusPastEndIgnored ==
  FocusPastEnd =>
    /\ children = last.pre.children
    /\ focused = last.pre.focused
    /\ need_redraw = last.pre.need_redraw
    /\ issued = <<>>
    /\ pc = "handled"

\* a press in the tab bar of a container with tabs mapped past the last tab
C8_Witness ==
  /\ FocusPastEnd /\ last.kind = "ButtonPress" /\ last.action.tag = "bar"
  /\ children # <<>>

\* C9: with tabs and a focus, cycle(+1) then cycle(-1), and cycle(-1) then
\* cycle(+1), give back the focus index; each step gives (focused + offset) mod
\* the number of children, in range; with no children or no focus cycle changes
\* nothing
C9_CycleRoundTrip ==
  /\ \A oc \in Profiles :
       LET st == Self(oc)
           up == cycle_focus_up(st)
           down == cycle_focus_down(st)
       IN IF children # <<>> /\ focused # None
          THEN /\ cycle_focus_down(up).focused = focused
               /\ cycle_focus_up(down).focused = focused
               /\ up.focused = (focused + 1) % Len(children)
               /\ down.focused = (focused - 1) % Len(children)
               /\ down.focused >= 0 /\ down.focused < Len(children)
          ELSE up = st /\ down = st
  /\ (Handled /\ last.kind = "KeyPress" /\ last.action.tag \in {"FocusUp", "FocusDown"})
       => /\ children = last.pre.children
          /\ focused = IF last.pre.children = <<>> \/ last.pre.focused = None
                       THEN last.pre.focused
                       ELSE (last.pre.focused
                               + (IF last.action.tag = "FocusUp" THEN 1 ELSE -1))
                            % Len(children)

\* focus-cycle-down was pressed on the first of three tabs and went to the last
C9_Witness ==
  /\ Handled /\ pc = "handled"
  /\ last.kind = "KeyPress" /\ last.action.tag = "FocusDown"
  /\ last.pre.focused = 0 /\ focused = 2 /\ Len(children) = 3

\* C10: with two or more tabs and a focus, swap(offset) then swap(-offset), for
\* offset +1 and -1, gives back the order of children and the focus index
C10_SwapRoundTrip ==
  (Len(children) >= 2 /\ focused # None) =>
    \A oc \in Profiles, offset \in {1, -1} :
      LET back == swap_focused_relative(swap_focused_relative(Self(oc), offset), -offset)
      IN back.children = children /\ back.focused = focused

\* swap-up was pressed on the last of three tabs: it changed places with the first
C10_Witness ==
  /\ Handled /\ pc = "handled"
  /\ last.kind = "KeyPress" /\ last.action.tag = "ShiftUp"
  /\ Len(children) = 3 /\ last.pre.focused = 2 /\ focused = 0
  /\ children = Swap(last.pre.children, 2, 0)

\* a swap-up or swap-down key was pressed
SwapKey == Handled /\ last.kind = "KeyPress" /\ last.action.tag \in {"ShiftUp", "ShiftDown"}

\* C11: swap_with_neighbor(offset) keeps focus on the same window: afterwards
\* children[focused] is the window that was focused before, the two positions
\* that changed places are the old focus index and (focused + offset) mod the
\* length, every other position and the set of windows are as before; with no
\* focus nothing changes
C11_SwapKeepsFocusedWindow ==
  SwapKey =>
    LET pre == last.pre
        n == Len(pre.children)
        offset == IF last.action.tag = "ShiftUp" THEN 1 ELSE -1
    IN IF pre.focused = None \/ n = 0
       THEN children = pre.children /\ focused = pre.focused
       ELSE LET a == pre.focused
                b == (a + offset) % n
            IN /\ focused = b
               /\ children[focused + 1] = pre.children[a + 1]
               /\ children[a + 1] = pre.children[b + 1]
               /\ Len(children) = n
               /\ \A i \in 1..n : i \notin {a + 1, b + 1} => children[i] = pre.children[i]
               /\ Range(children) = Range(pre.children)

\* swap-down was pressed on the first of three tabs: its window is now the last
\* tab and still the focused one, the middle tab did not move
C11_Witness ==
  /\ SwapKey /\ pc = "handled" /\ last.action.tag = "ShiftDown"
  /\ Len(children) = 3 /\ last.pre.focused = 0 /\ focused = 2
  /\ children[3] = last.pre.children[1] /\ children[1] = last.pre.children[3]

\* a reparent-notify into the container for a window that was not tracked
Attached ==
  /\ Handled /\ last.kind = "ReparentNotify"
  /\ last.action.tag = "in" /\ last.action.index = None

\* C12: an attach of an untracked window w appends w at the end of children
\* without reordering the others, focuses the new last index and sets the dirty
\* flag; from an empty container it gives children = [w], focused = Some(0)
C12_AttachAppendsAndFocuses ==
  Attached =>
    /\ children = Append(last.pre.children, last.window)
    /\ focused = Len(children) - 1
    /\ need_redraw
    /\ last.pre.children = <<>> => (children = <<last.window>> /\ focused = 0)

\* a third window was attached while the first tab had the focus
C12_Witness ==
  /\ Attached /\ pc = "handled"
  /\ Len(last.pre.children) = 2 /\ last.pre.focused = 0
  /\ Len(children) = 3 /\ focused = 2

\* C13 (as claimed): with N >= 1 children and width W, a press at 0 <= x < W in
\* the tab-bar band (rows 0..19) focuses index floor(x / (W/N)) < N, x = 0 the
\* first tab and x = W - 1 the last; a press below the 20-row band (y >= 20), or
\* with no children, changes no state and sends no request
C13_ButtonPressMapping ==
  (Handled /\ last.kind = "ButtonPress") =>
    LET pre == last.pre
        N == Len(pre.children)
        W == pre.win_width
        x == last.action.event_x
        y == last.action.event_y
    IN /\ (N >= 1 /\ 0 <= x /\ x < W /\ 0 <= y /\ y < BarHeight) =>
            /\ focused = (x * N) \div W /\ focused < N
            /\ x = 0 => focused = 0
            /\ x = W - 1 => focused = N - 1
       /\ (N = 0 \/ y >= BarHeight) =>
            /\ children = pre.children /\ focused = pre.focused
            /\ need_redraw = pre.need_redraw /\ issued = <<>> /\ pc = "handled"

\* C14 (as claimed): whenever the loop blocks in wait_for_event no redraw is
\* owed, the first wait after startup included
C14_NoRedrawOwedAtWait == pc = "wait" => ~need_redraw

\* the number of delete requests cleanup sent to wid
Deletes(wid) ==
  Cardinality({i \in 1..Len(issued) :
                 issued[i].req = "SendDelete" /\ issued[i].window = wid})

\* C15 (as claimed): cleanup sends one delete request to every tracked child
\* that exists and advertises the delete protocol, also when the query on
\* another tracked child fails, and none to any other window
C15_CleanupReachesEveryChild ==
  (pc \in {"exited", "failed"} /\ last.kind = "cleanup") =>
    \A w \in Windows :
      Deletes(w) = IF w \in Range(children) /\ parent[w] # "gone" /\ Advertises(w)
                   THEN 1 ELSE 0

\* C16 (as claimed): a failure of the draw step is not fatal: from a handled
\* event with a redraw owed and `running` set, the iteration ends back in
\* wait_for_event with `running` still set, whether drawbar succeeded or not
C16_DrawFailureNonFatal ==
  [][(pc = "handled" /\ need_redraw /\ running) => (pc' = "wait" /\ running')]_vars

\* C17 (as claimed): once a property-notify for a change of a tracked child's
\* _NET_WM_NAME or WM_NAME has been processed, the cached name of the child is its
\* current display name (_NET_WM_NAME, else WM_NAME), and the dirty flag was set
\* exactly when the cached value changed
C17_NameCacheFollowsRenames ==
  (Handled /\ last.kind = "PropertyNotify" /\ last.window \in Range(children)
     /\ last.action.tag \in {"WM_NAME", "_NET_WM_NAME"}) =>
    /\ child_names[last.window] = rs_get_window_name(Server, last.window)
    /\ need_redraw =
         (last.pre.need_redraw \/ child_names[last.window] # last.pre.child_names[last.window])

\* the window `tabctrl detach <wid>` reparents out: the last child of the tree
\* query, which lists the children bottom to top
reparent_current == IF stacking = <<>> THEN None ELSE stacking[Len(stacking)]

\* C18 (as claimed): whenever the container has processed all pending events,
\* the window tabctrl detach would take, the topmost child of the container, is
\* children[focused] (and there is none exactly when there is no tab)
C18_FocusedIsTopmost ==
  (pc = "wait" /\ queue = <<>>) =>
    reparent_current = IF focused = None THEN None ELSE children[focused + 1]

\* every child of the container has been reparented to the root and the
\* notifications of it are on their way
AllDetached ==
  /\ stacking = <<>> /\ queue # <<>>
  /\ queue[Len(queue)].kind = "ReparentNotify" /\ queue[Len(queue)].parent = Root

Layout(f, ch, W, foc) ==
  LET N == Len(ch)
  IN IF N = 0
     THEN f = << [op |-> "band", x |-> Ratio(0, 1), width |-> Ratio(W, 1)] >>
     ELSE /\ Len(f) = N
          /\ \A k \in 1..N :
               /\ f[k].op = "tab" /\ f[k].window = ch[k]
               /\ f[k].x[2] # 0 /\ f[k].width[2] # 0
               /\ RatEq(f[k].x, Ratio((k - 1) * W, N))
               /\ RatEq(f[k].width, Ratio(W, N))
               /\ (f[k].outline_height # 0) <=> (foc = k - 1)
          /\ RatEq(f[1].x, Ratio(0, 1))
          /\ \A k \in 1..(N - 1) : RatEq(RatAdd(f[k].x, f[k].width), f[k + 1].x)
          /\ RatEq(RatAdd(f[N].x, f[N].width), Ratio(W, 1))

FocusRequests ==
  {i \in 1..Len(issued) : issued[i].req \in {"ConfigureWindow", "SetInputFocus"}}

\* C21 (as claimed): every request that raises, resizes or gives the input focus
\* to a window targets a window that is a child of the container when the request
\* is issued, also while the notifications of several reparent-outs are processed
\* one by one
C21_FocusTargetsAreChildren ==
  Handled => \A i \in FocusRequests : parent[issued[i].window] = "container"

\* a tracked window other than the focused one was detached or destroyed
OtherDetached ==
  /\ Detached
  /\ last.action.index # None /\ last.pre.focused # None
  /\ last.action.index # last.pre.focused

\* C22: when window v is focused and another tracked window w is detached or
\* destroyed, afterwards children[focused] = v, the remaining children keep their
\* order, and the focus index is one less exactly when w stood before v
C22_RemovalKeepsFocusedWindow ==
  OtherDetached =>
    LET pre == last.pre
        v == pre.children[pre.focused + 1]
    IN /\ children = Remove(pre.children, last.action.index)
       /\ focused # None /\ children[focused + 1] = v
       /\ focused = IF last.action.index < pre.focused THEN pre.focused - 1
                    ELSE pre.focused

\* the first of three tabs was detached while the last had the focus: the focus
\* index went from 2 to 1, on the same window
C22_Witness ==
  /\ OtherDetached /\ pc = "handled"
  /\ Len(last.pre.children) = 3
  /\ last.action.index = 0 /\ last.pre.focused = 2 /\ focused = 1
  /\ children[2] = last.pre.children[3]

\* C23: after every processed event focused is None exactly when children is
\* empty
C23_FocusNoneIffEmpty == (focused = None) <=> (children = <<>>)

\* the only tab was detached and the focus went back to None
C23_Witness ==
  /\ Detached /\ pc = "handled"
  /\ Len(last.pre.children) = 1 /\ last.pre.focused = 0
  /\ children = <<>> /\ focused = None

\* the event of this iteration changed what the tab bar shows: the order or the
\* membership of children, the focus, the width, or the cached name of a tracked
\* child
BarChanged ==
  /\ Handled
  /\ \/ children # last.pre.children
     \/ focused # last.pre.focused
     \/ win_width # last.pre.win_width
     \/ \E w \in Range(children) : child_names[w] # last.pre.child_names[w]

\* C24: an event that changes what the tab bar shows sets the dirty flag; the
\* renderer then runs with the state the event left, so that at every blocking
\* wait after a draw the painted bar is the bar of the current state; and the
\* bar is painted only in the step that ends an iteration, once per event
C24_BarChangeIsDrawn ==
  /\ []((BarChanged /\ pc = "handled") => need_redraw)
  /\ []((pc = "wait" /\ frame # <<>>) => frame = drawbar(Self(FALSE)))
  /\ [][(pc = "handled" /\ need_redraw /\ pc' # "failed")
          => (frame' = drawbar(Self(FALSE)) /\ ~need_redraw')]_vars
  /\ [][frame' # frame => (pc = "handled" /\ pc' \in {"wait", "cleanup"})]_vars

\* swap-up on the first of two tabs, with no redraw owed before it, has set the
\* dirty flag: the painted bar still shows the old order
C24_Witness ==
  /\ BarChanged /\ pc = "handled"
  /\ last.kind = "KeyPress" /\ last.action.tag = "ShiftUp"
  /\ ~last.pre.need_redraw /\ need_redraw
  /\ Len(children) = 2 /\ Len(frame) = 2
  /\ frame[1].window = children[2] /\ frame[2].window = children[1]

\* the modifier mask of a rule as the claim words it: the bitwise OR of the
\* flags its list names, 0 for an empty list
FlagsMask(mods) ==
  LET has(m) == \E i \in 1..Len(mods) : mods[i] = m
  IN (IF has("SHIFT") THEN 1 ELSE 0) + (IF has("LOCK") THEN 2 ELSE 0)
       + (IF has("CONTROL") THEN 4 ELSE 0) + (IF has("ALT") THEN 8 ELSE 0)
       + (IF has("ANY") THEN 32768 ELSE 0)

\* the rules of the list that match a key press
MatchingRules(detail, state) ==
  {i \in 1..Len(keybinds) :
     keybinds[i].key = detail /\ FlagsMask(keybinds[i].modifiers) = state}

\* Tabbed as the handler of this iteration's event found it, under a build profile
PreSelf(overflow_checks) ==
  [children |-> last.pre.children, child_names |-> last.pre.child_names,
   focused |-> last.pre.focused, win_width |-> last.pre.win_width,
   win_height |-> last.pre.win_height, running |-> last.pre.running,
   need_redraw |-> last.pre.need_redraw,
   issued |-> <<>>, panicked |-> FALSE, overflow_checks |-> overflow_checks]

\* C25: a key press applies the action of the first rule in list order whose key
\* code equals the event's and whose modifier mask (the OR of its flags, 0 for
\* an empty list) equals the event's state exactly; when no rule matches, or the
\* matched action is toggle-auto-attach, the container state is unchanged
C25_FirstMatchingRuleApplies ==
  (Handled /\ last.kind = "KeyPress") =>
    LET hits == MatchingRules(last.action.detail, last.action.state)
        first == CHOOSE i \in hits : \A j \in hits : i <= j
    IN IF hits = {} \/ keybinds[first].action.tag = "ToggleAutoAttach"
       THEN /\ Pre = last.pre
            /\ issued = <<>> /\ pc = "handled"
       ELSE \E oc \in Profiles :
              LET st == do_action(PreSelf(oc), Server, keybinds[first].action).st
              IN /\ Pre = [f \in DOMAIN last.pre |-> st[f]]
                 /\ issued = st.issued
                 /\ (pc = "panicked") = st.panicked

\* under the rules of the file, key 50 without modifiers, bound first to
\* focus-cycle-up and then to focus-cycle-down, moved the focus up from the first
\* of three tabs
C25_Witness ==
  /\ Handled /\ pc = "handled" /\ last.kind = "KeyPress"
  /\ keybinds = USER_CONFIG
  /\ last.action.detail = 50 /\ last.action.state = 0
  /\ Len(children) = 3 /\ last.pre.focused = 0 /\ focused = 1

\* a configure-notify was processed
Configured == Handled /\ last.kind = "ConfigureNotify"

\* the configure-notify was for the container and carried a size other than the
\* stored one
Resized ==
  /\ Configured /\ last.window = WinId
  /\ <<last.action.width, last.action.height>>
       # <<last.pre.win_width, last.pre.win_height>>

\* C26: the stored geometry changes only while a configure-notify on the
\* container with another width or height is processed, and then to the size of
\* the event; a configure-notify for another window, or with the stored size,
\* changes no state and sends nothing; a geometry change leaves children and
\* focused as they were
C26_GeometryFrame ==
  /\ [](Handled =>
          /\ <<win_width, win_height>> # <<last.pre.win_width, last.pre.win_height>>
               => Resized
          /\ (Configured /\ ~Resized) => (Pre = last.pre /\ issued = <<>> /\ pc = "handled")
          /\ Resized => /\ win_width = last.action.width
                        /\ win_height = last.action.height
                        /\ children = last.pre.children
                        /\ focused = last.pre.focused)
  /\ [][<<win_width, win_height>>' # <<win_width, win_height>>
          => (pc = "wait" /\ last'.kind = "ConfigureNotify" /\ last'.window = WinId)]_vars

\* a container with two tabs, the first focused, was resized from 200 x 200 to
\* 90 x 10
C26_Witness ==
  /\ Resized /\ pc = "handled"
  /\ last.pre.win_width = 200 /\ win_width = 90 /\ win_height = 10
  /\ Len(children) = 2 /\ focused = 0

\* the ConfigureWindow requests of this iteration
ConfigureRequests == {i \in 1..Len(issued) : issued[i].req = "ConfigureWindow"}

\* C27 (as claimed): the geometry requested for a focused tab is x = 0, y = 20,
\* width = W, height = H - 20 of the current container geometry, a resize of a
\* container with a focused tab requests it again, and for every height H a
\* configure-notify reports, H < 20 included, H - 20 is computed without
\* unsigned underflow or wrap-around
C27_FocusGeometryNoUnderflow ==
  /\ Handled =>
       \A i \in ConfigureRequests :
         /\ win_height - BarHeight >= 0
         /\ issued[i].geom = <<0, BarHeight, win_width, <<0, win_height - BarHeight>>>>
  /\ (Resized /\ focused # None) =>
       \E i \in ConfigureRequests : issued[i].window = children[focused + 1]
  /\ (Handled /\ pc = "panicked") => DetachKey

====
